---- MODULE Spec2Model ----
(***************************************************************************)
(* FutureCollection of flask_executor/futures.py: a bounded,               *)
(* insertion-ordered mapping from future_key to Future with oldest-first   *)
(* eviction, pop, membership by value and proxied Future attribute calls.  *)
(*                                                                         *)
(* Python values are written as strings: None is "None", True and False    *)
(* are "True" and "False", an exception is the name of its class.          *)
(* max_length is <<>> for None and <<n>> for the integer n.                *)
(***************************************************************************)
EXTENDS Integers, Sequences, FiniteSets, TLC

VARIABLES
    max_length,   \* self.max_length
    futures,      \* self._futures: the OrderedDict as a sequence of [key, fut], oldest first
    fstate,       \* the state of every Future object, owned by the executor
    last,         \* the last call made on the collection and how it ended
    attr_call,    \* the proxied call that has tested its key and not read the entry yet: <<>> or <<[key, attr]>>
    add_calls,    \* for each thread that adds: how far its add is, and how its last add ended
    live,         \* history: the entries added and not removed by a pop since, in order of their add
    popped,       \* history: some pop has removed an entry
    removed,      \* history: the keys a pop removed the entry of and no add has added since
    nadds,        \* history: number of add calls that returned
    npops         \* history: number of pop calls that removed an entry

vars == <<max_length, futures, fstate, last, attr_call, add_calls,
          live, popped, removed, nadds, npops>>

\* ---------------------------------------------------------------- bounds

\* Largest integer max_length a collection is constructed with.
MaxLen == 2

\* Largest number of add calls that return, where the calls are counted.
MaxOps == 4

Keys == {"k1", "k2", "k3"}

Futures == {"f1", "f2"}

Results == {"r1", "r2"}

\* What the work of a Future may raise.
Exceptions == {"RuntimeError", "AttributeError"}

\* The attribute names the calls are made with: the last one is no attribute of a Future.
\* The threads that call add without a lock around the collection.
Threads == {"t1", "t2"}

Members == {"done", "result", "cancel", "_state", "unknownOp"}

None == <<>>

Lengths == {None} \cup {<<n>> : n \in 0..MaxLen}

\* ------------------------------------------------- concurrent.futures.Future

FutureMethods == {"done", "result", "cancel"}

FutureAttrs == FutureMethods \cup {"_state"}

NewFuture == [state |-> "PENDING", result |-> "None", exception |-> "None"]

\* Future.done(), Future.cancel() and Future.result(timeout=0) on a Future in
\* state s: what the call returns or raises, and the Future's state after it.
FutureCall(s, m) ==
    CASE m = "done" ->
            [ret |-> IF s.state \in {"CANCELLED", "FINISHED"} THEN "True" ELSE "False",
             exc |-> "None", after |-> s]
      [] m = "cancel" ->
            IF s.state \in {"RUNNING", "FINISHED"}
            THEN [ret |-> "False", exc |-> "None", after |-> s]
            ELSE [ret |-> "True", exc |-> "None",
                  after |-> [s EXCEPT !.state = "CANCELLED"]]
      [] m = "result" ->
            IF s.state = "CANCELLED"
            THEN [ret |-> "None", exc |-> "CancelledError", after |-> s]
            ELSE IF s.state = "FINISHED"
            THEN [ret |-> s.result, exc |-> s.exception, after |-> s]
            ELSE [ret |-> "None", exc |-> "TimeoutError", after |-> s]

\* A plain attribute of a Future.
FutureField(s, m) == s.state

\* ------------------------------------------------------------ OrderedDict

RECURSIVE IndexOf(_, _)
\* The position of key k in d, 0 when d does not hold it.
IndexOf(d, k) ==
    IF d = <<>> THEN 0
    ELSE IF d[Len(d)].key = k THEN Len(d)
    ELSE IndexOf(SubSeq(d, 1, Len(d) - 1), k)

\* k in d
HasKey(d, k) == \E i \in 1..Len(d) : d[i].key = k

\* d[k] read as the value of the oldest entry
getitem_oldest(d, k) == d[1].fut

\* d[k], for a key d holds
getitem(d, k) == d[IndexOf(d, k)].fut

\* d without its entry of position i
RemoveAt(d, i) == SubSeq(d, 1, i - 1) \o SubSeq(d, i + 1, Len(d))

\* d.pop(k, None) written as d.get(k): nothing is removed
dict_pop_keeps(d, k) == d

\* d after d.pop(k, None)
dict_pop(d, k) == IF HasKey(d, k) THEN RemoveAt(d, IndexOf(d, k)) ELSE d

\* d after d[k] = f: a new key goes to the end, a key d holds keeps its place
setitem(d, k, f) ==
    IF HasKey(d, k)
    THEN [d EXCEPT ![IndexOf(d, k)] = [key |-> k, fut |-> f]]
    ELSE Append(d, [key |-> k, fut |-> f])

\* d.popitem(last=True): the newest entry goes
popitem_newest(d) == SubSeq(d, 1, Len(d) - 1)

\* d after d.popitem(last=False)
popitem_first(d) == Tail(d)

\* f in d.values()
InValues(d, f) == \E i \in 1..Len(d) : d[i].fut = f

KeysOf(d) == {d[i].key : i \in 1..Len(d)}

\* ------------------------------------------------------- FutureCollection

RECURSIVE check_size_limit_late(_, _)
\* _check_size_limit() with the test len(self._futures) > self.max_length + 1
check_size_limit_late(d, ml) ==
    IF ml # None
    THEN IF Len(d) > ml[1] + 1 THEN check_size_limit_late(popitem_first(d), ml) ELSE d
    ELSE d

\* _check_size_limit() with `if` for `while`: one entry at most is discarded
check_size_limit_once(d, ml) ==
    IF ml # None
    THEN IF Len(d) > ml[1] THEN popitem_first(d) ELSE d
    ELSE d

RECURSIVE check_size_limit_none_as_zero(_, _)
\* _check_size_limit() with the test len(self._futures) > (self.max_length or 0)
check_size_limit_none_as_zero(d, ml) ==
    IF Len(d) > (IF ml # None THEN ml[1] ELSE 0)
    THEN check_size_limit_none_as_zero(popitem_first(d), ml)
    ELSE d

RECURSIVE check_size_limit(_, _)
\* self._futures after _check_size_limit(), from the dictionary d
check_size_limit(d, ml) ==
    IF ml # None
    THEN IF Len(d) > ml[1] THEN check_size_limit(popitem_first(d), ml) ELSE d
    ELSE d

Call(op, k, a, r, e, n) ==
    [op |-> op, key |-> k, arg |-> a, ret |-> r, exc |-> e, evicted |-> n]

TypeOK ==
    /\ max_length \in Lengths
    /\ fstate \in [Futures -> [state : {"PENDING", "RUNNING", "CANCELLED", "FINISHED"},
                               result : Results \cup {"None"},
                               exception : Exceptions \cup {"None"}]]
    /\ \A i \in 1..Len(futures) : futures[i].key \in Keys /\ futures[i].fut \in Futures

\* A thread that has not called add.
NoAdd == [pc |-> "idle", key |-> "None", fut |-> "None", out |-> "None", raced |-> FALSE]

\* FutureCollection(max_length)
Init ==
    /\ max_length \in Lengths
    /\ futures = <<>>
    /\ fstate = [f \in Futures |-> NewFuture]
    /\ last = Call("init", "None", "None", "None", "None", 0)
    /\ attr_call = <<>>
    /\ add_calls = [t \in Threads |-> NoAdd]
    /\ live = <<>>
    /\ popped = FALSE
    /\ removed = {}
    /\ nadds = 0
    /\ npops = 0

\* add() without its test of the key: the entry of a key held is overwritten
add_overwrites(k, f) ==
    /\ LET d == setitem(futures, k, f)
           c == check_size_limit(d, max_length)
       IN  /\ futures' = c
           /\ last' = Call("add", k, f, "None", "None", Len(d) - Len(c))
    /\ UNCHANGED <<max_length, fstate>>

\* add(future_key, future)
add(k, f) ==
    /\ IF HasKey(futures, k)
       THEN /\ futures' = futures
            /\ last' = Call("add", k, f, "None", "ValueError", 0)
       ELSE LET d == setitem(futures, k, f)
                c == check_size_limit(d, max_length)
            IN  /\ futures' = c
                /\ last' = Call("add", k, f, "None", "None", Len(d) - Len(c))
    /\ UNCHANGED <<max_length, fstate>>

\* pop() followed by _check_size_limit(): a pop discards entries too
pop_evicts(k) ==
    /\ futures' = check_size_limit(dict_pop(futures, k), max_length)
    /\ last' = Call("pop", k, "None",
                    IF HasKey(futures, k) THEN getitem(futures, k) ELSE "None",
                    "None", 0)
    /\ UNCHANGED <<max_length, fstate>>

\* pop() that cancels the Future it removes
pop_cancels(k) ==
    /\ futures' = dict_pop(futures, k)
    /\ last' = Call("pop", k, "None",
                    IF HasKey(futures, k) THEN getitem(futures, k) ELSE "None",
                    "None", 0)
    /\ fstate' = IF HasKey(futures, k)
                 THEN [fstate EXCEPT ![getitem(futures, k)].state = "CANCELLED"]
                 ELSE fstate
    /\ UNCHANGED max_length

\* pop(future_key)
pop(k) ==
    /\ futures' = dict_pop(futures, k)
    /\ last' = Call("pop", k, "None",
                    IF HasKey(futures, k) THEN getitem(futures, k) ELSE "None",
                    "None", 0)
    /\ UNCHANGED <<max_length, fstate>>

\* future in collection
contains(f) ==
    /\ last' = Call("contains", "None", f,
                    IF InValues(futures, f) THEN "True" ELSE "False", "None", 0)
    /\ UNCHANGED <<max_length, futures, fstate>>

\* len(collection): the size is written as the number of entries in last.evicted's place
len ==
    /\ last' = Call("len", "None", "None", "None", "None", Len(futures))
    /\ UNCHANGED <<max_length, futures, fstate>>

\* _future_attr() without its test of the key: self._futures[future_key] raises
future_attr_unguarded(k, m) ==
    /\ IF ~HasKey(futures, k)
       THEN /\ last' = Call("invoke", k, m, "None", "KeyError", 0)
            /\ fstate' = fstate
       ELSE LET f == getitem(futures, k) IN
            IF m \notin FutureAttrs
            THEN /\ last' = Call("invoke", k, m, "None", "AttributeError", 0)
                 /\ fstate' = fstate
            ELSE IF m \in FutureMethods
            THEN LET c == FutureCall(fstate[f], m) IN
                 /\ last' = Call("invoke", k, m, c.ret, c.exc, 0)
                 /\ fstate' = [fstate EXCEPT ![f] = c.after]
            ELSE /\ last' = Call("invoke", k, m, FutureField(fstate[f], m), "None", 0)
                 /\ fstate' = fstate
    /\ UNCHANGED <<max_length, futures>>

\* _future_attr() with getattr before the test of the key, on the Future class
future_attr_getattr_first(k, m) ==
    /\ IF m \notin FutureAttrs
       THEN /\ last' = Call("invoke", k, m, "None", "AttributeError", 0)
            /\ fstate' = fstate
       ELSE IF ~HasKey(futures, k)
       THEN /\ last' = Call("invoke", k, m, "None", "None", 0)
            /\ fstate' = fstate
       ELSE LET f == getitem(futures, k) IN
            IF m \in FutureMethods
            THEN LET c == FutureCall(fstate[f], m) IN
                 /\ last' = Call("invoke", k, m, c.ret, c.exc, 0)
                 /\ fstate' = [fstate EXCEPT ![f] = c.after]
            ELSE /\ last' = Call("invoke", k, m, FutureField(fstate[f], m), "None", 0)
                 /\ fstate' = fstate
    /\ UNCHANGED <<max_length, futures>>

\* collection.<attr>(future_key, *args)
future_attr(k, m) ==
    /\ IF ~HasKey(futures, k)
       THEN /\ last' = Call("invoke", k, m, "None", "None", 0)
            /\ fstate' = fstate
       ELSE LET f == getitem(futures, k) IN
            IF m \notin FutureAttrs
            THEN /\ last' = Call("invoke", k, m, "None", "AttributeError", 0)
                 /\ fstate' = fstate
            ELSE IF m \in FutureMethods
            THEN LET c == FutureCall(fstate[f], m) IN
                 /\ last' = Call("invoke", k, m, c.ret, c.exc, 0)
                 /\ fstate' = [fstate EXCEPT ![f] = c.after]
            ELSE /\ last' = Call("invoke", k, m, FutureField(fstate[f], m), "None", 0)
                 /\ fstate' = fstate
    /\ UNCHANGED <<max_length, futures>>

\* collection.max_length = n, by the owner of the collection
set_max_length(ml) ==
    /\ max_length' = ml
    /\ ml # max_length
    /\ last' = Call("set_max_length", "None", "None", "None", "None", 0)
    /\ UNCHANGED <<futures, fstate>>

\* The executor starts the work of a Future.
set_running(f) ==
    /\ fstate[f].state = "PENDING"
    /\ fstate' = [fstate EXCEPT ![f].state = "RUNNING"]
    /\ last' = Call("engine", "None", f, "None", "None", 0)
    /\ UNCHANGED <<max_length, futures>>

\* The executor finishes the work of a Future with a result.
set_result(f, r) ==
    /\ fstate[f].state \in {"PENDING", "RUNNING"}
    /\ fstate' = [fstate EXCEPT ![f] = [state |-> "FINISHED", result |-> r,
                                        exception |-> "None"]]
    /\ last' = Call("engine", "None", f, "None", "None", 0)
    /\ UNCHANGED <<max_length, futures>>

\* The work of a Future raises e.
set_exception(f, e) ==
    /\ fstate[f].state \in {"PENDING", "RUNNING"}
    /\ fstate' = [fstate EXCEPT ![f] = [state |-> "FINISHED", result |-> "None",
                                        exception |-> e]]
    /\ last' = Call("engine", "None", f, "None", "None", 0)
    /\ UNCHANGED <<max_length, futures>>

\* ------------------------------------------ calls of threads, step by step

\* _future_attr(), line 39: the test of the key, and the return of None
future_attr_test(k, m) ==
    /\ attr_call = <<>>
    /\ IF ~HasKey(futures, k)
       THEN /\ last' = Call("invoke", k, m, "None", "None", 0)
            /\ attr_call' = <<>>
       ELSE /\ last' = last
            /\ attr_call' = <<[key |-> k, attr |-> m]>>
    /\ UNCHANGED <<max_length, futures, fstate, add_calls>>

\* _future_attr(), lines 41 to 44: self._futures[future_key], getattr, the call
future_attr_read ==
    /\ attr_call # <<>>
    /\ LET k == attr_call[1].key
           m == attr_call[1].attr
       IN  IF ~HasKey(futures, k)
           THEN /\ last' = Call("invoke", k, m, "None", "KeyError", 0)
                /\ fstate' = fstate
           ELSE LET f == getitem(futures, k) IN
                IF m \notin FutureAttrs
                THEN /\ last' = Call("invoke", k, m, "None", "AttributeError", 0)
                     /\ fstate' = fstate
                ELSE IF m \in FutureMethods
                THEN LET c == FutureCall(fstate[f], m) IN
                     /\ last' = Call("invoke", k, m, c.ret, c.exc, 0)
                     /\ fstate' = [fstate EXCEPT ![f] = c.after]
                ELSE /\ last' = Call("invoke", k, m, FutureField(fstate[f], m), "None", 0)
                     /\ fstate' = fstate
    /\ attr_call' = <<>>
    /\ UNCHANGED <<max_length, futures, add_calls>>

\* add(), lines 59 and 60, in thread t: the test of the key, and the raise
add_test(t, k, f) ==
    /\ add_calls[t].pc = "idle"
    /\ IF HasKey(futures, k)
       THEN add_calls' = [add_calls EXCEPT ![t] =
                [pc |-> "idle", key |-> k, fut |-> f, out |-> "ValueError", raced |-> FALSE]]
       ELSE LET others == {u \in Threads \ {t} :
                               /\ add_calls[u].pc = "tested"
                               /\ add_calls[u].key = k
                               /\ add_calls[u].fut # f}
            IN  add_calls' = [u \in Threads |->
                    IF u = t
                    THEN [pc |-> "tested", key |-> k, fut |-> f, out |-> "None",
                          raced |-> others # {}]
                    ELSE IF u \in others
                    THEN [add_calls[u] EXCEPT !.raced = TRUE]
                    ELSE add_calls[u]]
    /\ UNCHANGED <<max_length, futures, fstate, last, attr_call>>

\* add(), line 61, in thread t: self._futures[future_key] = future
add_store(t) ==
    /\ add_calls[t].pc = "tested"
    /\ futures' = setitem(futures, add_calls[t].key, add_calls[t].fut)
    /\ add_calls' = [add_calls EXCEPT ![t].pc = "stored"]
    /\ UNCHANGED <<max_length, fstate, last, attr_call>>

\* add(), line 62, in thread t: self._check_size_limit(), and the return
add_limit(t) ==
    /\ add_calls[t].pc = "stored"
    /\ futures' = check_size_limit(futures, max_length)
    /\ add_calls' = [add_calls EXCEPT ![t].pc = "idle", ![t].out = "returned"]
    /\ UNCHANGED <<max_length, fstate, last, attr_call>>

\* ---------------------------------------------------------------- history

Added == last'.op = "add" /\ last'.exc = "None"

Removed == last'.op = "pop" /\ HasKey(futures, last'.key)

\* The entries of d whose key is not k, in their order.
Forget(d, k) == SelectSeq(d, LAMBDA x : x.key # k)

Record ==
    /\ live' = IF Added
               THEN Append(Forget(live, last'.key), [key |-> last'.key, fut |-> last'.arg])
               ELSE IF Removed THEN Forget(live, last'.key)
               ELSE live
    /\ popped' = (popped \/ Removed)
    /\ removed' = IF Added THEN removed \ {last'.key}
                  ELSE IF Removed THEN removed \cup {last'.key}
                  ELSE removed

Count ==
    /\ Added => nadds < MaxOps
    /\ nadds' = IF Added THEN nadds + 1 ELSE nadds
    /\ npops' = IF Removed THEN npops + 1 ELSE npops

\* ---------------------------------------------------------- specifications

\* The calls are made one at a time: none is under way between two steps.
Serial == UNCHANGED <<attr_call, add_calls>>

\* The history is left alone.
Frozen == UNCHANGED <<live, popped, removed, nadds, npops>>

\* The history is recorded, the calls are not counted.
Recorded == Record /\ UNCHANGED <<nadds, npops>> /\ Serial

\* The history is recorded and the calls are counted.
Counted == Record /\ Count /\ Serial

\* The history is left alone.
Unrecorded == Frozen /\ Serial

\* The calls on a collection whose max_length stays as constructed.
Next ==
    \/ \E k \in Keys, f \in Futures : add(k, f) /\ Recorded
    \/ \E k \in Keys : pop(k) /\ Recorded
    \/ \E f \in Futures : contains(f) /\ Recorded
    \/ len /\ Recorded
    \/ \E k \in Keys, m \in Members : future_attr(k, m) /\ Recorded

Spec == Init /\ [][Next]_vars

\* The calls, and the executor running and finishing Futures.
NextEngine ==
    \/ \E k \in Keys, f \in Futures : add(k, f) /\ Unrecorded
    \/ \E k \in Keys : pop(k) /\ Unrecorded
    \/ \E f \in Futures : contains(f) /\ Unrecorded
    \/ len /\ Unrecorded
    \/ \E k \in Keys, m \in Members : future_attr(k, m) /\ Unrecorded
    \/ \E f \in Futures : set_running(f) /\ Unrecorded
    \/ \E f \in Futures, r \in Results : set_result(f, r) /\ Unrecorded
    \/ \E f \in Futures, e \in Exceptions : set_exception(f, e) /\ Unrecorded

SpecEngine == Init /\ [][NextEngine]_vars

\* The calls, and the owner assigning max_length.
NextLowered ==
    \/ \E k \in Keys, f \in Futures : add(k, f) /\ Recorded
    \/ \E k \in Keys : pop(k) /\ Recorded
    \/ \E f \in Futures : contains(f) /\ Recorded
    \/ len /\ Recorded
    \/ \E k \in Keys, m \in Members : future_attr(k, m) /\ Recorded
    \/ \E ml \in Lengths : set_max_length(ml) /\ Recorded

SpecLowered == Init /\ [][NextLowered]_vars

\* The calls on a collection constructed with max_length=None, counted.
NextUnbounded ==
    \/ \E k \in Keys, f \in Futures : add(k, f) /\ Counted
    \/ \E k \in Keys : pop(k) /\ Counted
    \/ \E f \in Futures : contains(f) /\ Counted
    \/ len /\ Counted
    \/ \E k \in Keys, m \in Members : future_attr(k, m) /\ Counted

\* FutureCollection(max_length=None)
InitUnbounded == Init /\ max_length = None

SpecUnbounded == InitUnbounded /\ [][NextUnbounded]_vars

\* A proxied call in two steps, with pop and add of other threads between them.
NextAttrRace ==
    \/ \E k \in Keys, m \in Members : future_attr_test(k, m) /\ Frozen
    \/ future_attr_read /\ Frozen
    \/ \E k \in Keys : pop(k) /\ Frozen /\ Serial
    \/ \E k \in Keys, f \in Futures : add(k, f) /\ Frozen /\ Serial

SpecAttrRace == Init /\ [][NextAttrRace]_vars

\* The adds of two threads, each in three steps.
NextAddRace ==
    \/ \E t \in Threads, k \in Keys, f \in Futures : add_test(t, k, f) /\ Frozen
    \/ \E t \in Threads : add_store(t) /\ Frozen
    \/ \E t \in Threads : add_limit(t) /\ Frozen

SpecAddRace == Init /\ [][NextAddRace]_vars

\* ------------------------------------------------------------------ claims

\* The last n entries of d, all of them when d has fewer.
LastN(d, n) == SubSeq(d, Len(d) - (IF n < Len(d) THEN n ELSE Len(d)) + 1, Len(d))

\* The Future d holds under k, for a key d holds.
HandleOf(d, k) == d[CHOOSE i \in 1..Len(d) : d[i].key = k].fut

\* d is the end of e
IsSuffix(d, e) == Len(d) <= Len(e) /\ d = LastN(e, Len(d))

\* C1: with an integer max_length N, len(collection) <= N after every add,
\* returned or raised, and every pop, from the empty collection on.
C1_Bound == max_length # None => Len(futures) <= max_length[1]

\* An add on a full collection has discarded the oldest entry.
C1_Witness ==
    /\ max_length # None
    /\ max_length[1] > 0
    /\ last.op = "add" /\ last.evicted = 1
    /\ Len(futures) = max_length[1]

\* C2: add(k, h2) with k held raises ValueError and leaves the collection as it
\* was (same entries in the same order, nothing discarded, also when the
\* collection is over its bound); a pop(k) returns the handle k was added with.
C2_NoOverwrite ==
    [][\A k \in Keys :
        /\ (last'.op = "add" /\ last'.key = k /\ HasKey(futures, k))
              => (last'.exc = "ValueError" /\ futures' = futures /\ last'.evicted = 0)
        /\ (last'.op = "pop" /\ last'.key = k /\ HasKey(futures, k))
              => (last'.ret = HandleOf(live, k) /\ last'.exc = "None")
      ]_vars

\* An add of a key held has raised on a collection that is over its bound.
C2_Witness ==
    /\ last.op = "add" /\ last.exc = "ValueError"
    /\ last.arg # HandleOf(futures, last.key)
    /\ max_length # None
    /\ Len(futures) > max_length[1]

\* C3 as claimed: the keys held are exactly the N most recently added of the
\* keys not popped, also when pops are interleaved with the adds.
C3_Original ==
    max_length # None => KeysOf(futures) = KeysOf(LastN(live, max_length[1]))

\* C3 as amended: the entries held are the most recently added of the entries
\* not popped, at most N of them, oldest discarded first; they are exactly the
\* N most recent (all when fewer exist) as long as no pop has removed an entry.
C3_Retained ==
    max_length # None =>
        /\ IsSuffix(futures, live)
        /\ Len(futures) <= max_length[1]
        /\ ~popped => futures = LastN(live, max_length[1])

\* Adds alone have filled the collection beyond its bound.
C3_Witness ==
    /\ max_length # None
    /\ ~popped
    /\ max_length[1] > 0
    /\ Len(live) > max_length[1]
    /\ Len(futures) = max_length[1]

\* C4: pop(k) and <attr>(k) on a key not held (never added, popped or
\* discarded) return None without raising, whatever the attribute, and change
\* neither the collection nor a Future.
C4_AbsentKey ==
    [][\A k \in Keys :
        (last'.op \in {"pop", "invoke"} /\ last'.key = k /\ ~HasKey(futures, k))
            => /\ last'.ret = "None"
               /\ last'.exc = "None"
               /\ futures' = futures
               /\ fstate' = fstate
      ]_vars

\* An attribute no Future has was called on a key whose entry was discarded.
C4_Witness ==
    /\ last.op = "invoke" /\ last.arg = "unknownOp"
    /\ last.ret = "None" /\ last.exc = "None"
    /\ ~HasKey(futures, last.key)
    /\ HasKey(live, last.key)

\* C5: a pop(k) that returns a handle returns the one k was last added with and
\* makes the collection one entry shorter; from then on, until an add of k
\* returns, k is not held and every pop(k) and <attr>(k) returns None.
C5_PopRemoves ==
    [][\A k \in Keys :
        /\ (last'.op = "pop" /\ last'.key = k /\ last'.ret # "None")
              => /\ last'.ret = HandleOf(live, k)
                 /\ Len(futures') = Len(futures) - 1
                 /\ ~HasKey(futures', k)
                 /\ k \in removed'
        /\ (k \in removed)
              => /\ ~HasKey(futures, k)
                 /\ (last'.op \in {"pop", "invoke"} /\ last'.key = k)
                       => (last'.ret = "None" /\ last'.exc = "None")
                 /\ (k \notin removed') => (last'.op = "add" /\ last'.key = k)
      ]_vars

\* A second pop of a key popped before has returned None.
C5_Witness ==
    /\ last.op = "pop" /\ last.ret = "None"
    /\ last.key \in removed
    /\ futures # <<>>

\* The keys other than k that d holds the Future f under.
OtherKeys(d, k, f) == {d[i].key : i \in {j \in 1..Len(d) : d[j].key # k /\ d[j].fut = f}}

\* C6 as claimed: h is in the collection right after every add(k, h) that
\* returns, max_length 0 included, and is not in it right after the pop(k)
\* that returns h.
C6_Original ==
    /\ (last.op = "add" /\ last.exc = "None") => InValues(futures, last.arg)
    /\ (last.op = "pop" /\ last.ret # "None") => ~InValues(futures, last.ret)

\* C6 as amended: h is in the collection right after an add(k, h) that returns
\* when max_length is None or at least 1, and is not in it right after the
\* pop(k) that returns h when no other key holds h.
C6_Containment ==
    [][\A k \in Keys :
        /\ (last'.op = "add" /\ last'.key = k /\ last'.exc = "None" /\ max_length # <<0>>)
              => InValues(futures', last'.arg)
        /\ (last'.op = "pop" /\ last'.key = k /\ HasKey(futures, k)
                /\ OtherKeys(futures, k, HandleOf(futures, k)) = {})
              => ~InValues(futures', last'.ret)
      ]_vars

\* An add has discarded more than one entry and holds the Future it was given.
C6_Witness ==
    /\ last.op = "add" /\ last.exc = "None" /\ last.evicted >= 2
    /\ InValues(futures, last.arg)

\* C7: with max_length None nothing is discarded: the collection holds the
\* entries added and not popped since, in the order of their add, and its size
\* is the number of adds that returned less the number of pops that removed.
C7_Unbounded ==
    max_length = None =>
        /\ futures = live
        /\ Len(futures) = nadds - npops

\* Four adds have returned and one pop has removed, leaving every key held.
C7_Witness ==
    /\ max_length = None
    /\ nadds = 4 /\ npops = 1
    /\ KeysOf(futures) = Keys

\* C8: <attr>(k) on a key held returns what the Future held under k gives in
\* its state: done() is True on a finished or cancelled Future and False on a
\* pending or running one, result() the stored result of a Future finished
\* with one, cancel() cancels a pending Future, a plain attribute is its
\* value; no other Future changes and the collection stays as it was.
C8_Delegation ==
    [][\A k \in Keys :
        (last'.op = "invoke" /\ last'.key = k /\ HasKey(futures, k))
        => LET f == HandleOf(futures, k)
               s == fstate[f]
           IN  /\ futures' = futures
               /\ \A g \in Futures \ {f} : fstate'[g] = fstate[g]
               /\ last'.arg = "done"
                     => /\ last'.ret = (IF s.state \in {"FINISHED", "CANCELLED"}
                                        THEN "True" ELSE "False")
                        /\ last'.exc = "None"
                        /\ fstate'[f] = s
               /\ (last'.arg = "result" /\ s.state = "FINISHED" /\ s.exception = "None")
                     => /\ last'.ret = s.result
                        /\ last'.exc = "None"
                        /\ fstate'[f] = s
               /\ last'.arg = "_state"
                     => /\ last'.ret = s.state
                        /\ last'.exc = "None"
                        /\ fstate'[f] = s
               /\ (last'.arg = "cancel" /\ s.state = "PENDING")
                     => /\ last'.ret = "True"
                        /\ fstate'[f].state = "CANCELLED"
      ]_vars

\* result() was called on a key whose Future has a result while the oldest
\* entry holds another Future, still pending.
C8_Witness ==
    /\ last.op = "invoke" /\ last.arg = "result" /\ last.ret \in Results
    /\ Len(futures) >= 2
    /\ futures[1].key # last.key
    /\ fstate[futures[1].fut].state = "PENDING"

\* C9 as claimed: <attr>(k) raises AttributeError if and only if k is held and
\* the attribute is none of a Future.
C9_Original ==
    last.op = "invoke" =>
        (last.exc = "AttributeError"
            <=> (HasKey(futures, last.key) /\ last.arg \notin FutureAttrs))

\* C9 as amended: <attr>(k) on a key held raises AttributeError when the
\* attribute is none of a Future; on a key not held it returns None, the test
\* of the key coming first; the collection is unchanged either way. The only
\* other AttributeError is the one result() passes on from a Future whose work
\* raised it.
C9_Unsupported ==
    [][\A k \in Keys :
        (last'.op = "invoke" /\ last'.key = k)
        => /\ futures' = futures
           /\ ~HasKey(futures, k) => (last'.ret = "None" /\ last'.exc = "None")
           /\ (HasKey(futures, k) /\ last'.arg \notin FutureAttrs)
                 => (last'.exc = "AttributeError" /\ fstate' = fstate)
           /\ (HasKey(futures, k) /\ last'.arg \in FutureAttrs
                  /\ last'.exc = "AttributeError")
                 => /\ last'.arg = "result"
                    /\ fstate[HandleOf(futures, k)].state = "FINISHED"
                    /\ fstate[HandleOf(futures, k)].exception = "AttributeError"
      ]_vars

\* The attribute no Future has was called on a key held, whose Future finished.
C9_Witness ==
    /\ last.op = "invoke" /\ last.arg = "unknownOp" /\ last.exc = "AttributeError"
    /\ HasKey(futures, last.key)
    /\ fstate[HandleOf(futures, last.key)].state = "FINISHED"

\* The number of entries an add discards from s entries under the bound n.
Excess(s, n) == IF s + 1 > n THEN s + 1 - n ELSE 0

\* C10: an add that returns on s entries under the integer bound N puts the new
\* entry last and then discards exactly max(0, s + 1 - N) entries, all from the
\* front: none or one when s <= N, more when max_length was lowered below the
\* size, the new entry too when N = 0. The entries left keep their order.
C10_MinimalEviction ==
    [][\A k \in Keys :
        (last'.op = "add" /\ last'.key = k /\ last'.exc = "None" /\ max_length # None)
        => LET s == Len(futures)
               e == Excess(s, max_length[1])
               d == Append(futures, [key |-> k, fut |-> last'.arg])
           IN  /\ futures' = SubSeq(d, e + 1, s + 1)
               /\ last'.evicted = e
               /\ s <= max_length[1] => e \in {0, 1}
               /\ max_length[1] = 0 => futures' = <<>>
      ]_vars

\* An add has discarded two entries after max_length was lowered, and holds one.
C10_Witness ==
    /\ last.op = "add" /\ last.exc = "None"
    /\ last.evicted = 2
    /\ Len(futures) = 1

\* The entries of d whose key is in K, in their order.
Restrict(d, K) == SelectSeq(d, LAMBDA x : x.key \in K)

\* C11: an entry leaves the collection only by a pop of its own key or inside
\* an add that returns. pop(k) takes the entry of k at most and leaves the
\* other entries, their handles and their order; contains, len, the proxied
\* calls and an add that raises remove nothing, also when max_length was
\* lowered below the size.
C11_EvictionOnlyInAdd ==
    [][/\ \A i \in 1..Len(futures) :
            ~HasKey(futures', futures[i].key)
               => \/ last'.op = "pop" /\ last'.key = futures[i].key
                  \/ last'.op = "add" /\ last'.exc = "None"
       /\ last'.op = "pop"
             => futures' = Restrict(futures, KeysOf(futures) \ {last'.key})
       /\ (\/ last'.op \in {"contains", "len", "invoke", "set_max_length"}
           \/ last'.op = "add" /\ last'.exc = "ValueError")
             => futures' = futures
      ]_vars

\* A pop has taken one entry from a collection over its lowered bound, and the
\* collection is over the bound still.
C11_Witness ==
    /\ last.op = "pop" /\ last.ret # "None"
    /\ max_length # None
    /\ Len(futures) > max_length[1]

\* C12: add, the discarding inside it, and pop change the state of no Future;
\* a Future changes only by the executor or by a proxied call on a key that
\* holds it, so a Future pending when its entry is discarded or popped is not
\* cancelled, and the executor can still finish it.
C12_ComputationUntouched ==
    [][/\ last'.op \in {"add", "pop", "contains", "len"} => fstate' = fstate
       /\ \A f \in Futures :
            fstate'[f] # fstate[f]
               => \/ last'.op = "engine" /\ last'.arg = f
                  \/ /\ last'.op = "invoke"
                     /\ HasKey(futures, last'.key)
                     /\ HandleOf(futures, last'.key) = f
       /\ \A f \in Futures :
            (fstate[f].state = "PENDING" /\ last'.op \in {"add", "pop"})
               => /\ fstate'[f].state = "PENDING"
                  /\ (ENABLED (set_result(f, "r1") /\ Unrecorded))'
      ]_vars

\* An add under max_length 1 has discarded the entry of a pending Future, and
\* every Future is pending still.
C12_Witness ==
    /\ max_length = <<1>>
    /\ last.op = "add" /\ last.evicted = 1
    /\ Len(futures) = 1
    /\ \A f \in Futures : fstate[f].state = "PENDING"

\* C13: a key held before and after a step holds the same handle and keeps its
\* place among the keys that stay; a key that comes to be held was added by
\* that step, with the handle of the add, as the last entry.
C13_NoInPlaceUpdate ==
    [][futures' # futures =>
       /\ \A k \in Keys :
            (HasKey(futures, k) /\ HasKey(futures', k))
               => HandleOf(futures', k) = HandleOf(futures, k)
       /\ Restrict(futures, KeysOf(futures')) = Restrict(futures', KeysOf(futures))
       /\ \A k \in Keys :
            (~HasKey(futures, k) /\ HasKey(futures', k))
               => /\ last'.op = "add" /\ last'.key = k /\ last'.exc = "None"
                  /\ futures'[Len(futures')] = [key |-> k, fut |-> last'.arg]
      ]_vars

\* After a pop, an add on a full collection has discarded the oldest entry and
\* put its own last.
C13_Witness ==
    /\ last.op = "add" /\ last.exc = "None" /\ last.evicted = 1
    /\ popped
    /\ Len(futures) >= 2
    /\ futures[Len(futures)] = [key |-> last.key, fut |-> last.arg]

\* C14 as claimed: a proxied call that runs along with a pop(k) or an add that
\* discards k either acts on the handle of k or returns None: it never ends
\* with a KeyError.
C14_AtomicLookup == last.op = "invoke" => last.exc # "KeyError"

\* Two adds of one key with different handles have both returned, each having
\* tested the key before the other stored.
BothReturned ==
    \E t \in Threads, u \in Threads :
        /\ t # u
        /\ add_calls[t].pc = "idle" /\ add_calls[t].out = "returned" /\ add_calls[t].raced
        /\ add_calls[u].pc = "idle" /\ add_calls[u].out = "returned" /\ add_calls[u].raced
        /\ add_calls[t].key = add_calls[u].key
        /\ add_calls[t].fut # add_calls[u].fut

\* C15 as claimed: of two adds of one key with different handles whose steps
\* interleave, one at most returns, and the handle stored first under the key
\* is never replaced.
C15_UniqueUnderInterleaving ==
    [][/\ \A k \in Keys :
            (HasKey(futures, k) /\ HasKey(futures', k))
               => HandleOf(futures', k) = HandleOf(futures, k)
       /\ ~BothReturned'
      ]_vars

====
